---- MODULE Spec2Model ----
(***************************************************************************)
(* precise-time-ntp: the TimeSync class of src/index.js (second, current   *)
(* definition, lines 550-1128): offset sampling, the instant/smooth        *)
(* correction decision, the gradual-correction timer chain and the         *)
(* read model.                                                             *)
(*                                                                         *)
(* Numbers.  Times are whole milliseconds of performance.now().  Offsets   *)
(* are fixed-point: an offset of x ms is the integer x * Scale.  Measured  *)
(* offsets are whole milliseconds (a difference of two Date values); the   *)
(* gradual steps diff * rate are truncated toward zero to 1/Scale ms.      *)
(* correctionRate is held in tenths (RateDen), the unit of the default 0.1.*)
(***************************************************************************)
EXTENDS Integers, Sequences, FiniteSets, Bags, TLC

(***************************************************************************)
(* Bounds of the model                                                     *)
(***************************************************************************)
Scale == 20
Stall == 30001
MaxClock == 31000
MaxSyncs == 3
Calls == {1, 2}
Offsets == {0, 900, 1000, 2500, 6000}
SampleOffsets == {40, 45, 140, 2500, 9000}
RunOffsets == {0, 2500}
StartClock == 1

(***************************************************************************)
(* Program constants                                                       *)
(***************************************************************************)
NULL == -1
RateDen == 10
CorrectionTimeout == 30000
DriftLimit == 3600000
CoherenceLimit == 100

VARIABLES
  isSync,               \* this.isSync
  lastSyncTime,         \* this.lastSyncTime (performance.now() of the anchor)
  systemOffset,         \* this.systemOffset (real offset)
  syncDate,             \* this.syncDate (wall clock of the anchor)
  targetOffset,         \* this.targetOffset
  currentOffset,        \* this.currentOffset (applied offset)
  correctionInProgress, \* this.correctionInProgress
  correctionStartTime,  \* this.correctionStartTime
  autoSyncTimer,        \* this.autoSyncTimer: NULL or the id of an interval timer
  config,               \* this.config
  timers,               \* bag of pending setTimeout callbacks of applyGradualCorrection
                        \* (beforeForce, history: forceCorrection() was called
                        \* while the callback was pending)
  intervals,            \* set of armed setInterval timers
  calls,                \* the sync() calls: position, merged config, samples so far
  clock,                \* performance.now()
  emitted,              \* events emitted by the last step, in order
  runStart,             \* history: clock of the last Settled -> Converging transition
  syncCalls,            \* history: number of sync() calls made so far
  forced,               \* history: the last step was a call of forceCorrection()
  observed,             \* history: the object as the subscribers of each event
                        \* of emitted found it when the event was delivered
  throwing              \* the event types that have a subscriber that throws

vars == <<isSync, lastSyncTime, systemOffset, syncDate, targetOffset,
          currentOffset, correctionInProgress, correctionStartTime,
          autoSyncTimer, config, timers, intervals, calls, clock, emitted,
          runStart, syncCalls, forced, observed, throwing>>

(***************************************************************************)
(* Helpers                                                                 *)
(***************************************************************************)
Abs(x) == IF x < 0 THEN -x ELSE x
Min(a, b) == IF a < b THEN a ELSE b
Max(a, b) == IF a > b THEN a ELSE b

\* x milliseconds as a fixed-point offset
Ms(x) == x * Scale

\* { ...base, ...over }
Merge(base, over) ==
  [f \in DOMAIN base |-> IF f \in DOMAIN over THEN over[f] ELSE base[f]]

\* JavaScript !x for a time that is null or a number
Falsy(x) == x = NULL \/ x = 0

\* diff * rate, truncated toward zero
Mul(diff, rate) ==
  IF diff >= 0 THEN (diff * rate) \div RateDen
               ELSE -(((-diff) * rate) \div RateDen)

NoOptions == <<>>

DefaultConfig ==
  [servers |-> <<"pool.ntp.org", "time.google.com", "time.cloudflare.com">>,
   timeout |-> 5000,
   retries |-> 3,
   autoSync |-> FALSE,
   autoSyncInterval |-> 300000,
   smoothCorrection |-> TRUE,
   maxCorrectionJump |-> 1000,
   correctionRate |-> 1,
   maxOffsetThreshold |-> 5000,
   coherenceValidation |-> TRUE]

\* the fields of the TimeSync object as one record
This ==
  [isSync |-> isSync, lastSyncTime |-> lastSyncTime,
   systemOffset |-> systemOffset, syncDate |-> syncDate,
   targetOffset |-> targetOffset, currentOffset |-> currentOffset,
   correctionInProgress |-> correctionInProgress,
   correctionStartTime |-> correctionStartTime,
   autoSyncTimer |-> autoSyncTimer]

(***************************************************************************)
(* applyGradualCorrection(rate), run at time t on the object this.         *)
(* Result: the object after the call, the events it emitted, and the delay *)
(* of the setTimeout it scheduled (NULL when it scheduled none).           *)
(***************************************************************************)
nextInterval(diff) ==
  Max(50, Min(200, Abs(diff) \div (10 * Scale)))

\* this.currentOffset += diff * rate
\* (variant: the step is applied twice)
correctionStep_Twice(currentOffset_, diff, rate) ==
  currentOffset_ + 2 * Mul(diff, rate)

correctionStep(currentOffset_, diff, rate) ==
  currentOffset_ + Mul(diff, rate)

applyGradualCorrection(this, rate, t) ==
  IF ~this.correctionInProgress
  THEN [this |-> this, emit |-> <<>>, delay |-> NULL]
  ELSE
    LET diff == this.targetOffset - this.currentOffset IN
    IF 2 * Abs(diff) < Scale
    THEN [this |-> [this EXCEPT !.currentOffset = this.targetOffset,
                                !.correctionInProgress = FALSE],
          emit |-> <<[type |-> "correctionComplete",
                      finalOffset |-> this.targetOffset,
                      flag |-> "converged"]>>,
          delay |-> NULL]
    ELSE
      LET start == IF Falsy(this.correctionStartTime)
                   THEN t ELSE this.correctionStartTime
          elapsed == t - start
      IN
      IF elapsed > CorrectionTimeout
      THEN [this |-> [this EXCEPT !.currentOffset = this.targetOffset,
                                  !.correctionInProgress = FALSE,
                                  !.correctionStartTime = NULL],
            emit |-> <<[type |-> "correctionComplete",
                        finalOffset |-> this.targetOffset,
                        flag |-> "timeout"]>>,
            delay |-> NULL]
      ELSE [this |-> [this EXCEPT !.correctionStartTime = start,
                                  !.currentOffset = correctionStep(@, diff, rate)],
            emit |-> <<>>,
            delay |-> nextInterval(diff)]

(***************************************************************************)
(* forceCorrection()                                                       *)
(***************************************************************************)
\* (variant: the event is emitted before the applied offset is assigned)
forceCorrection_EmitsFirst(this) ==
  IF this.correctionInProgress
  THEN [this |-> [this EXCEPT !.currentOffset = this.targetOffset,
                              !.correctionInProgress = FALSE],
        emit |-> <<[type |-> "correctionComplete",
                    finalOffset |-> this.currentOffset,
                    flag |-> "forced"]>>]
  ELSE [this |-> this, emit |-> <<>>]

\* (variant: the completion is reported whether or not a correction was running)
forceCorrection_AlwaysEmits(this) ==
  [this |-> [this EXCEPT !.currentOffset = this.targetOffset,
                         !.correctionInProgress = FALSE],
   emit |-> <<[type |-> "correctionComplete",
               finalOffset |-> this.targetOffset,
               flag |-> "forced"]>>]

\* (variant: the flag is cleared but the applied offset is left where it is)
forceCorrection_KeepsApplied(this) ==
  IF this.correctionInProgress
  THEN [this |-> [this EXCEPT !.correctionInProgress = FALSE],
        emit |-> <<[type |-> "correctionComplete",
                    finalOffset |-> this.currentOffset,
                    flag |-> "forced"]>>]
  ELSE [this |-> this, emit |-> <<>>]

forceCorrection(this) ==
  IF this.correctionInProgress
  THEN [this |-> [this EXCEPT !.currentOffset = this.targetOffset,
                              !.correctionInProgress = FALSE],
        emit |-> <<[type |-> "correctionComplete",
                    finalOffset |-> this.targetOffset,
                    flag |-> "forced"]>>]
  ELSE [this |-> this, emit |-> <<>>]

(***************************************************************************)
(* setSmoothCorrection(enabled, options): the new this.config              *)
(***************************************************************************)
setSmoothCorrection(cfg, enabled, options) ==
  [f \in DOMAIN cfg |->
     IF f = "smoothCorrection" THEN enabled
     ELSE IF f \in {"maxCorrectionJump", "correctionRate", "maxOffsetThreshold"}
             /\ f \in DOMAIN options
          THEN options[f]
          ELSE cfg[f]]

(***************************************************************************)
(* sync(options), first part: the merged configuration and the servers to  *)
(* test.                                                                   *)
(***************************************************************************)
\* (variant: every configured server is tested whatever the flag says)
serversToTest_All(cfg) == cfg.servers

serversToTest(cfg) ==
  IF cfg.coherenceValidation
  THEN SubSeq(cfg.servers, 1, Min(3, Len(cfg.servers)))
  ELSE cfg.servers

(***************************************************************************)
(* sync(options), after the query loop: selection of the result            *)
(***************************************************************************)
RECURSIVE MaxOf(_), MinOf(_), sortAscending(_)
MaxOf(s) ==
  IF Len(s) = 1 THEN s[1] ELSE Max(s[1], MaxOf(Tail(s)))
MinOf(s) ==
  IF Len(s) = 1 THEN s[1] ELSE Min(s[1], MinOf(Tail(s)))

\* insertion of x into an ascending sequence
insertAscending(x, s) ==
  LET k == Cardinality({i \in 1..Len(s) : s[i] <= x})
  IN SubSeq(s, 1, k) \o <<x>> \o SubSeq(s, k + 1, Len(s))

\* offsets.sort((a, b) => a - b)
sortAscending(s) ==
  IF s = <<>> THEN <<>> ELSE insertAscending(s[1], sortAscending(Tail(s)))

offsetsOf(serverResults) ==
  [i \in 1..Len(serverResults) |-> serverResults[i].offset]

\* Math.max(...offsets) - Math.min(...offsets)
variance(serverResults) ==
  MaxOf(offsetsOf(serverResults)) - MinOf(offsetsOf(serverResults))

\* offsets[Math.floor(offsets.length / 2)] of the sorted offsets
\* (variant: the lowest of the sorted offsets is taken)
medianOffset_Lowest(serverResults) ==
  sortAscending(offsetsOf(serverResults))[1]

medianOffset(serverResults) ==
  sortAscending(offsetsOf(serverResults))[(Len(serverResults) \div 2) + 1]

\* serverResults.find(r => r.offset === medianOffset) || selectedResult
\* (variant: the median offset is reported under the first server's name)
selectResult_KeepsFirstServer(serverResults) ==
  IF Len(serverResults) > 1 /\ variance(serverResults) > Ms(CoherenceLimit)
  THEN [serverResults[1] EXCEPT !.offset = medianOffset(serverResults)]
  ELSE serverResults[1]

selectResult(serverResults) ==
  IF Len(serverResults) > 1 /\ variance(serverResults) > Ms(CoherenceLimit)
  THEN LET m == medianOffset(serverResults)
           hits == {i \in 1..Len(serverResults) : serverResults[i].offset = m}
       IN IF hits = {} THEN serverResults[1]
          ELSE serverResults[CHOOSE i \in hits : \A j \in hits : i <= j]
  ELSE serverResults[1]

\* coherenceVariance of the result of sync()
\* (variant: the difference between the first and the last sample)
coherenceVariance_FirstLast(serverResults) ==
  serverResults[1].offset - serverResults[Len(serverResults)].offset

coherenceVariance(serverResults) ==
  IF Len(serverResults) > 1 THEN variance(serverResults) ELSE 0

\* this.emit('coherenceWarning', { variance, servers }) when the offsets of
\* two or more servers differ by more than 100 ms
\* (variant: a variance of exactly 100 ms is reported too)
coherenceWarning_AtLimit(serverResults) ==
  IF Len(serverResults) > 1 /\ variance(serverResults) >= Ms(CoherenceLimit)
  THEN <<[type |-> "coherenceWarning",
          variance |-> variance(serverResults),
          servers |-> serverResults]>>
  ELSE <<>>

coherenceWarning(serverResults) ==
  IF Len(serverResults) > 1 /\ variance(serverResults) > Ms(CoherenceLimit)
  THEN <<[type |-> "coherenceWarning",
          variance |-> variance(serverResults),
          servers |-> serverResults]>>
  ELSE <<>>

\* (variant: a difference equal to maxCorrectionJump is corrected smoothly)
brutalCorrection_StrictJump(isFirstSync, cfg, offsetDiff) ==
  \/ isFirstSync
  \/ ~cfg.smoothCorrection
  \/ offsetDiff < Ms(cfg.maxCorrectionJump)
  \/ offsetDiff >= Ms(cfg.maxOffsetThreshold)

\* (variant: the smoothCorrection switch is not consulted)
brutalCorrection_IgnoresSwitch(isFirstSync, cfg, offsetDiff) ==
  \/ isFirstSync
  \/ offsetDiff <= Ms(cfg.maxCorrectionJump)
  \/ offsetDiff >= Ms(cfg.maxOffsetThreshold)

\* the condition of the brutal-correction branch
brutalCorrection(isFirstSync, cfg, offsetDiff) ==
  \/ isFirstSync
  \/ ~cfg.smoothCorrection
  \/ offsetDiff <= Ms(cfg.maxCorrectionJump)
  \/ offsetDiff >= Ms(cfg.maxOffsetThreshold)

(***************************************************************************)
(* startAutoSync(interval) at time t: the object and the armed interval    *)
(* timers after the call.                                                  *)
(***************************************************************************)
\* (variant: the timer that is armed already is left armed)
startAutoSync_KeepsOld(this, ivs, interval, t) ==
  LET id == CHOOSE n \in 1..(Cardinality(ivs) + 1) : \A iv \in ivs : iv.id # n
  IN [this |-> [this EXCEPT !.autoSyncTimer = id],
      intervals |-> ivs \cup {[id |-> id, interval |-> interval,
                               due |-> t + interval]}]

startAutoSync(this, ivs, interval, t) ==
  LET kept == {iv \in ivs : iv.id # this.autoSyncTimer}
      id == CHOOSE n \in 1..(Cardinality(kept) + 1) :
              \A iv \in kept : iv.id # n
  IN [this |-> [this EXCEPT !.autoSyncTimer = id],
      intervals |-> kept \cup {[id |-> id, interval |-> interval,
                                due |-> t + interval]}]

(***************************************************************************)
(* sync(options), after the query loop, run at time t with the samples     *)
(* serverResults.  Result: the object, the interval timers, the events     *)
(* emitted, whether the promise resolved or rejected, and the delay of the *)
(* correction timer it scheduled (NULL when none).                         *)
(***************************************************************************)
\* the object as each of the events found it, all delivered with the object
\* as this
Seen(events, this) == [i \in 1..Len(events) |-> this]

\* throw new Error('Unable to synchronize with any NTP server')
\* (variant: the failure marks the clock as not synchronized)
syncRejected_ClearsSync(this, ivs) ==
  [this |-> [this EXCEPT !.isSync = FALSE, !.lastSyncTime = NULL,
                         !.syncDate = NULL],
   intervals |-> ivs, emit |-> <<>>, seen |-> <<>>, outcome |-> "rejected",
   delay |-> NULL]

syncRejected(this, ivs) ==
  [this |-> this, intervals |-> ivs, emit |-> <<>>, seen |-> <<>>,
   outcome |-> "rejected", delay |-> NULL]

\* Math.abs(newOffset - this.currentOffset)
\* (variant: the difference is taken from the target offset)
offsetDiffOf_FromTarget(this, newOffset) ==
  Abs(newOffset - this.targetOffset)

offsetDiffOf(this, newOffset) ==
  Abs(newOffset - this.currentOffset)

\* this.isSync = true; this.lastSyncTime = performance.now();
\* this.syncDate = new Date()
\* (variant: isSync tells whether the clock is settled on the real offset)
syncAnchor_SyncWhenSettled(this, t) ==
  [this EXCEPT !.isSync = ~this.correctionInProgress,
               !.lastSyncTime = t,
               !.syncDate = t]

syncAnchor(this, t) ==
  [this EXCEPT !.isSync = TRUE,
               !.lastSyncTime = t,
               !.syncDate = t]

\* the result object of sync(), which is also the payload of the sync event
\* (variant: correctedOffset reports the real offset)
syncResult_ReportsReal(this, selectedResult, isFirstSync, offsetDiff, serverResults) ==
  [type |-> "sync",
   server |-> selectedResult.server,
   offset |-> this.systemOffset,
   correctedOffset |-> this.systemOffset,
   gradualCorrection |-> this.correctionInProgress,
   offsetDiff |-> IF isFirstSync THEN 0 ELSE offsetDiff,
   coherenceVariance |-> coherenceVariance(serverResults)]

syncResult(this, selectedResult, isFirstSync, offsetDiff, serverResults) ==
  [type |-> "sync",
   server |-> selectedResult.server,
   offset |-> this.systemOffset,
   correctedOffset |-> this.currentOffset,
   gradualCorrection |-> this.correctionInProgress,
   offsetDiff |-> IF isFirstSync THEN 0 ELSE offsetDiff,
   coherenceVariance |-> coherenceVariance(serverResults)]

syncFinish(this, ivs, cfg, serverResults, t) ==
  IF Len(serverResults) = 0
  THEN syncRejected(this, ivs)
  ELSE
    LET warn == coherenceWarning(serverResults)
        selectedResult == selectResult(serverResults)
        newOffset == selectedResult.offset
        isFirstSync == ~this.isSync
        offsetDiff == offsetDiffOf(this, newOffset)
        corr ==
          IF brutalCorrection(isFirstSync, cfg, offsetDiff)
          THEN [this |-> [this EXCEPT !.systemOffset = newOffset,
                                      !.currentOffset = newOffset,
                                      !.targetOffset = newOffset,
                                      !.correctionInProgress = FALSE,
                                      !.correctionStartTime = NULL],
                emit |-> <<>>, delay |-> NULL]
          ELSE applyGradualCorrection(
                 [this EXCEPT !.targetOffset = newOffset,
                              !.systemOffset = newOffset,
                              !.correctionInProgress = TRUE,
                              !.correctionStartTime = NULL],
                 cfg.correctionRate, t)
        anchored == syncAnchor(corr.this, t)
        result == syncResult(anchored, selectedResult, isFirstSync, offsetDiff,
                             serverResults)
        auto == IF cfg.autoSync /\ anchored.autoSyncTimer = NULL
                THEN startAutoSync(anchored, ivs, cfg.autoSyncInterval, t)
                ELSE [this |-> anchored, intervals |-> ivs]
    IN [this |-> auto.this, intervals |-> auto.intervals,
        emit |-> warn \o corr.emit \o <<result>>,
        seen |-> Seen(warn, this) \o Seen(corr.emit, corr.this) \o <<anchored>>,
        outcome |-> "resolved", delay |-> corr.delay]

\* this.emit(...) calls the subscribers synchronously: when a subscriber of
\* one of the events of sync() throws, the exception leaves sync() at that
\* emit, with the object as it is at that point, and the promise rejects
emitThrows(r, ivs, thrown) ==
  LET hit == {i \in 1..Len(r.emit) : r.emit[i].type \in thrown} IN
  IF hit = {}
  THEN r
  ELSE LET first == CHOOSE i \in hit : \A j \in hit : i <= j
       IN [this |-> r.seen[first], intervals |-> ivs,
           emit |-> SubSeq(r.emit, 1, first),
           seen |-> SubSeq(r.seen, 1, first),
           outcome |-> "rejected",
           delay |-> IF r.emit[first].type = "sync" THEN r.delay ELSE NULL]

(***************************************************************************)
(* now(): the error it throws or the time it returns (in 1/Scale ms), and  *)
(* the events it emits                                                     *)
(***************************************************************************)
\* (variant: the real offset is used also while a correction is running)
activeOffset_AlwaysReal(this) == this.systemOffset

activeOffset(this) ==
  IF this.correctionInProgress THEN this.currentOffset ELSE this.systemOffset

\* this.emit('driftWarning', { elapsed }) when elapsed > 3600000
\* (variant: the warning starts at one hour sharp)
driftWarning_AtLimit(elapsed) ==
  IF elapsed >= DriftLimit
  THEN <<[type |-> "driftWarning", elapsed |-> elapsed]>>
  ELSE <<>>

driftWarning(elapsed) ==
  IF elapsed > DriftLimit
  THEN <<[type |-> "driftWarning", elapsed |-> elapsed]>>
  ELSE <<>>

now(this, t) ==
  IF ~this.isSync
  THEN [ok |-> FALSE, time |-> 0, emit |-> <<>>]
  ELSE [ok |-> TRUE,
        time |-> Ms(this.syncDate + (t - this.lastSyncTime)) + activeOffset(this),
        emit |-> driftWarning(t - this.lastSyncTime)]

\* offset()
\* (variant: the real offset is returned also while a correction is running)
offset_Real(this) ==
  IF ~this.isSync THEN 0 ELSE this.systemOffset

offset(this) ==
  IF ~this.isSync THEN 0 ELSE activeOffset(this)

\* stats(): the fields that report the clock
stats(this, t) ==
  [synchronized |-> this.isSync,
   lastSync |-> this.syncDate,
   offset |-> this.systemOffset,
   correctedOffset |-> this.currentOffset,
   targetOffset |-> this.targetOffset,
   correctionInProgress |-> this.correctionInProgress,
   uptime |-> IF this.isSync THEN t - this.lastSyncTime ELSE 0]

\* isSynchronized()
isSynchronized(this) == this.isSync

(***************************************************************************)
(* Construction: new TimeSync(options)                                     *)
(***************************************************************************)
IdleCall ==
  [pc |-> "idle", cfg |-> DefaultConfig, idx |-> 0, server |-> "",
   results |-> <<>>, auto |-> FALSE, older |-> {}, stale |-> FALSE,
   stopped |-> FALSE]

constructed(options) ==
  /\ isSync = FALSE
  /\ lastSyncTime = NULL
  /\ systemOffset = 0
  /\ syncDate = NULL
  /\ targetOffset = 0
  /\ currentOffset = 0
  /\ correctionInProgress = FALSE
  /\ correctionStartTime = NULL
  /\ autoSyncTimer = NULL
  /\ config = Merge(DefaultConfig, options)
  /\ timers = EmptyBag
  /\ intervals = {}
  /\ calls = [c \in Calls |-> IdleCall]
  /\ clock = StartClock
  /\ emitted = <<>>
  /\ runStart = NULL
  /\ syncCalls = 0
  /\ forced = FALSE
  /\ observed = <<>>
  /\ throwing = {}

\* the constructor options of the instances the model starts from
CtorOptions ==
  {[servers |-> <<"pool.ntp.org">>, correctionRate |-> 9]}

Init == \E options \in CtorOptions : constructed(options)

(***************************************************************************)
(* Assignment of the object fields and of the history variable             *)
(***************************************************************************)
\* the fields of the object after a step taken at time t
AssignAt(this, t) ==
  /\ isSync' = this.isSync
  /\ lastSyncTime' = this.lastSyncTime
  /\ systemOffset' = this.systemOffset
  /\ syncDate' = this.syncDate
  /\ targetOffset' = this.targetOffset
  /\ currentOffset' = this.currentOffset
  /\ correctionInProgress' = this.correctionInProgress
  /\ correctionStartTime' = this.correctionStartTime
  /\ autoSyncTimer' = this.autoSyncTimer
  /\ runStart' = IF ~this.correctionInProgress THEN NULL
                 ELSE IF correctionInProgress THEN runStart
                 ELSE t

Assign(this) == AssignAt(this, clock)

Scheduled(bag, delay, rate, t) ==
  IF delay = NULL THEN bag
  ELSE bag (+) SetToBag({[due |-> t + delay, rate |-> rate,
                          beforeForce |-> FALSE]})

(***************************************************************************)
(* sync(options): the call, up to its first await                          *)
(***************************************************************************)
SyncOptions == {NoOptions}

\* (variant: a failed automatic sync is dropped silently)
autoSyncCatch_Silent(auto, outcome) == <<>>

\* this.sync().catch(err => { this.emit('error', err) }) of the setInterval
\* callback: the events emitted when the promise of a call has settled
autoSyncCatch(auto, outcome) ==
  IF auto /\ outcome = "rejected"
  THEN <<[type |-> "error",
          message |-> "Unable to synchronize with any NTP server"]>>
  ELSE <<>>

\* (variant: single flight, the result of a call overtaken by a younger call
\* is discarded)
Finish_DiscardsStale(c, serverResults, errors, t) ==
  LET cl == calls[c]
      r == emitThrows(syncFinish(This, intervals, cl.cfg, serverResults, t),
                      intervals, throwing)
  IN /\ IF cl.stale THEN AssignAt(This, t) ELSE AssignAt(r.this, t)
     /\ intervals' = IF cl.stale THEN intervals ELSE r.intervals
     /\ timers' = IF cl.stale THEN timers
                  ELSE Scheduled(timers, r.delay, cl.cfg.correctionRate, t)
     /\ emitted' = errors \o r.emit \o autoSyncCatch(cl.auto, r.outcome)
     /\ observed' = Seen(errors, This) \o r.seen
                     \o Seen(autoSyncCatch(cl.auto, r.outcome), r.this)
     /\ calls' = [d \in Calls |->
                   IF d = c
                   THEN [IdleCall EXCEPT !.pc = r.outcome, !.stale = cl.stale,
                                         !.auto = cl.auto,
                                         !.stopped = cl.stopped]
                   ELSE IF r.outcome = "resolved" /\ calls[d].pc = "querying"
                           /\ d \in cl.older
                        THEN [calls[d] EXCEPT !.stale = TRUE]
                        ELSE calls[d]]
     /\ forced' = FALSE
     /\ UNCHANGED throwing
     /\ clock' = t
     /\ UNCHANGED <<config, syncCalls>>

\* (variant: the configuration is read from this.config when the loop ends)
Finish_ReadsThisConfig(c, serverResults, errors, t) ==
  LET cl == calls[c]
      r == emitThrows(syncFinish(This, intervals, config, serverResults, t),
                      intervals, throwing)
  IN /\ AssignAt(r.this, t)
     /\ intervals' = r.intervals
     /\ timers' = Scheduled(timers, r.delay, config.correctionRate, t)
     /\ emitted' = errors \o r.emit \o autoSyncCatch(cl.auto, r.outcome)
     /\ observed' = Seen(errors, This) \o r.seen
                     \o Seen(autoSyncCatch(cl.auto, r.outcome), r.this)
     /\ calls' = [d \in Calls |->
                   IF d = c
                   THEN [IdleCall EXCEPT !.pc = r.outcome, !.stale = cl.stale,
                                         !.auto = cl.auto,
                                         !.stopped = cl.stopped]
                   ELSE IF r.outcome = "resolved" /\ calls[d].pc = "querying"
                           /\ d \in cl.older
                        THEN [calls[d] EXCEPT !.stale = TRUE]
                        ELSE calls[d]]
     /\ forced' = FALSE
     /\ UNCHANGED throwing
     /\ clock' = t
     /\ UNCHANGED <<config, syncCalls>>

\* the promise of call c settles: the code after the query loop
Finish(c, serverResults, errors, t) ==
  LET cl == calls[c]
      r == emitThrows(syncFinish(This, intervals, cl.cfg, serverResults, t),
                      intervals, throwing)
  IN /\ AssignAt(r.this, t)
     /\ intervals' = r.intervals
     /\ timers' = Scheduled(timers, r.delay, cl.cfg.correctionRate, t)
     /\ emitted' = errors \o r.emit \o autoSyncCatch(cl.auto, r.outcome)
     /\ observed' = Seen(errors, This) \o r.seen
                     \o Seen(autoSyncCatch(cl.auto, r.outcome), r.this)
     /\ calls' = [d \in Calls |->
                   IF d = c
                   THEN [IdleCall EXCEPT !.pc = r.outcome, !.stale = cl.stale,
                                         !.auto = cl.auto,
                                         !.stopped = cl.stopped]
                   ELSE IF r.outcome = "resolved" /\ calls[d].pc = "querying"
                           /\ d \in cl.older
                        THEN [calls[d] EXCEPT !.stale = TRUE]
                        ELSE calls[d]]
     /\ forced' = FALSE
     /\ UNCHANGED throwing
     /\ clock' = t
     /\ UNCHANGED <<config, syncCalls>>

SyncStart(c, options) ==
  /\ calls[c].pc # "querying"
  /\ \A d \in Calls : d < c => calls[d].pc = "querying"
  /\ syncCalls < MaxSyncs
  /\ syncCalls' = syncCalls + 1
  /\ LET cfg == Merge(config, options)
         \* with no server to test the loop has no turn and sync() throws
         started == IF Len(serversToTest(cfg)) = 0
                    THEN [IdleCall EXCEPT !.pc = "rejected"]
                    ELSE [pc |-> "querying", cfg |-> cfg, idx |-> 1,
                          server |-> serversToTest(cfg)[1],
                          results |-> <<>>,
                          auto |-> FALSE,
                          older |-> {d \in Calls : calls[d].pc = "querying"},
                          stale |-> FALSE,
                          stopped |-> FALSE]
     IN /\ calls' = [calls EXCEPT ![c] = started]
        /\ emitted' = <<>>
        /\ observed' = <<>>
        /\ forced' = FALSE
        /\ UNCHANGED throwing
        /\ UNCHANGED <<isSync, lastSyncTime, systemOffset, syncDate,
                       targetOffset, currentOffset, correctionInProgress,
                       correctionStartTime, autoSyncTimer, config, timers,
                       intervals, clock, runStart>>

\* (variant: the first failed query ends the loop)
Continue_AbortsOnError(c, serverResults, errors, t) ==
  LET cl == calls[c] IN
  IF cl.idx < Len(serversToTest(cl.cfg)) /\ errors = <<>>
  THEN /\ calls' = [calls EXCEPT ![c].idx = @ + 1,
                                 ![c].server = serversToTest(cl.cfg)[cl.idx + 1],
                                 ![c].results = serverResults]
       /\ emitted' = errors
       /\ observed' = Seen(errors, This)
       /\ clock' = t
       /\ forced' = FALSE
       /\ UNCHANGED throwing
       /\ UNCHANGED <<isSync, lastSyncTime, systemOffset, syncDate,
                      targetOffset, currentOffset, correctionInProgress,
                      correctionStartTime, autoSyncTimer, config, timers,
                      intervals, runStart, syncCalls>>
  ELSE Finish(c, serverResults, errors, t)

\* the setInterval callback of startAutoSync fires: this.sync() without
\* options, up to its first await
AutoSyncTick(iv, c) ==
  /\ iv \in intervals
  /\ iv.due <= clock
  /\ calls[c].pc # "querying"
  /\ \A d \in Calls : d < c => calls[d].pc = "querying"
  /\ syncCalls < MaxSyncs
  /\ syncCalls' = syncCalls + 1
  /\ Len(serversToTest(config)) > 0
  /\ calls' = [calls EXCEPT ![c] =
                 [pc |-> "querying", cfg |-> config, idx |-> 1,
                  server |-> serversToTest(config)[1],
                  results |-> <<>>,
                  auto |-> TRUE,
                  older |-> {d \in Calls : calls[d].pc = "querying"},
                  stale |-> FALSE,
                  stopped |-> FALSE]]
  /\ intervals' = (intervals \ {iv}) \cup {[iv EXCEPT !.due = clock + iv.interval]}
  /\ emitted' = <<>>
  /\ observed' = <<>>
  /\ forced' = FALSE
  /\ UNCHANGED throwing
  /\ UNCHANGED <<isSync, lastSyncTime, systemOffset, syncDate,
                 targetOffset, currentOffset, correctionInProgress,
                 correctionStartTime, autoSyncTimer, config, timers,
                 clock, runStart>>

\* startAutoSync(interval), called by the application
StartAutoSync(interval) ==
  /\ LET r == startAutoSync(This, intervals, interval, clock)
     IN /\ Assign(r.this)
        /\ intervals' = r.intervals
  /\ emitted' = <<>>
  /\ observed' = <<>>
  /\ forced' = FALSE
  /\ UNCHANGED throwing
  /\ UNCHANGED <<config, timers, calls, clock, syncCalls>>

\* stopAutoSync(): clearInterval and this.autoSyncTimer = null
\* (stopped, history: the call was in flight when stopAutoSync() was called)
\* (variant: the calls in flight are abandoned too)
StopAutoSync_CancelsCalls ==
  /\ autoSyncTimer' = NULL
  /\ intervals' = {iv \in intervals : iv.id # autoSyncTimer}
  /\ calls' = [c \in Calls |->
                 IF calls[c].pc = "querying" THEN IdleCall ELSE calls[c]]
  /\ emitted' = <<>>
  /\ observed' = <<>>
  /\ forced' = FALSE
  /\ UNCHANGED throwing
  /\ UNCHANGED <<isSync, lastSyncTime, systemOffset, syncDate, targetOffset,
                 currentOffset, correctionInProgress, correctionStartTime,
                 config, timers, clock, runStart, syncCalls>>

StopAutoSync ==
  /\ autoSyncTimer' = NULL
  /\ intervals' = {iv \in intervals : iv.id # autoSyncTimer}
  /\ calls' = [c \in Calls |->
                 IF calls[c].pc = "querying"
                 THEN [calls[c] EXCEPT !.stopped = TRUE]
                 ELSE calls[c]]
  /\ emitted' = <<>>
  /\ observed' = <<>>
  /\ forced' = FALSE
  /\ UNCHANGED throwing
  /\ UNCHANGED <<isSync, lastSyncTime, systemOffset, syncDate, targetOffset,
                 currentOffset, correctionInProgress, correctionStartTime,
                 config, timers, clock, runStart, syncCalls>>

\* the loop after the await of server idx has settled: next server or finish
\* a subscriber of the error event throws in the catch block of the loop
ErrorThrows(c, errors, t) ==
  LET cl == calls[c] IN
  /\ calls' = [calls EXCEPT ![c] = [IdleCall EXCEPT !.pc = "rejected",
                                                    !.stale = cl.stale,
                                                    !.auto = cl.auto,
                                                    !.stopped = cl.stopped]]
  /\ emitted' = errors \o autoSyncCatch(cl.auto, "rejected")
  /\ observed' = Seen(emitted', This)
  /\ clock' = t
  /\ forced' = FALSE
  /\ UNCHANGED throwing
  /\ UNCHANGED <<isSync, lastSyncTime, systemOffset, syncDate,
                 targetOffset, currentOffset, correctionInProgress,
                 correctionStartTime, autoSyncTimer, config, timers,
                 intervals, runStart, syncCalls>>

\* (variant: without coherence validation the first answer ends the loop)
Continue_StopsAtSuccess(c, serverResults, errors, t) ==
  LET cl == calls[c] IN
  IF errors # <<>> /\ "error" \in throwing
  THEN ErrorThrows(c, errors, t)
  ELSE
  IF /\ cl.idx < Len(serversToTest(cl.cfg))
     /\ (cl.cfg.coherenceValidation \/ errors # <<>>)
  THEN /\ calls' = [calls EXCEPT ![c].idx = @ + 1,
                                 ![c].server = serversToTest(cl.cfg)[cl.idx + 1],
                                 ![c].results = serverResults]
       /\ emitted' = errors
       /\ observed' = Seen(errors, This)
       /\ clock' = t
       /\ forced' = FALSE
       /\ UNCHANGED throwing
       /\ UNCHANGED <<isSync, lastSyncTime, systemOffset, syncDate,
                      targetOffset, currentOffset, correctionInProgress,
                      correctionStartTime, autoSyncTimer, config, timers,
                      intervals, runStart, syncCalls>>
  ELSE Finish(c, serverResults, errors, t)

Continue(c, serverResults, errors, t) ==
  LET cl == calls[c] IN
  IF errors # <<>> /\ "error" \in throwing
  THEN ErrorThrows(c, errors, t)
  ELSE
  IF cl.idx < Len(serversToTest(cl.cfg))
  THEN /\ calls' = [calls EXCEPT ![c].idx = @ + 1,
                                 ![c].server = serversToTest(cl.cfg)[cl.idx + 1],
                                 ![c].results = serverResults]
       /\ emitted' = errors
       /\ observed' = Seen(errors, This)
       /\ clock' = t
       /\ forced' = FALSE
       /\ UNCHANGED throwing
       /\ UNCHANGED <<isSync, lastSyncTime, systemOffset, syncDate,
                      targetOffset, currentOffset, correctionInProgress,
                      correctionStartTime, autoSyncTimer, config, timers,
                      intervals, runStart, syncCalls>>
  ELSE Finish(c, serverResults, errors, t)

\* getNtpTime resolves: the sample ntpTime.getTime() - Date.now() is o ms
SyncQueryOk(c, o) ==
  /\ calls[c].pc = "querying"
  /\ LET cl == calls[c]
     IN Continue(c, Append(cl.results, [server |-> cl.server, offset |-> Ms(o)]),
                 <<>>, clock)

\* getNtpTime rejects (timeout or NTP error)
SyncQueryFail(c) ==
  /\ calls[c].pc = "querying"
  /\ LET cl == calls[c]
     IN Continue(c, cl.results, <<[type |-> "error", server |-> cl.server]>>,
                 clock)

(***************************************************************************)
(* getNtpTime(server, timeout): the promise settles with the first of the  *)
(* callback of ntpClient.getNetworkTime and the timer.  arrival is the     *)
(* time after the call at which the callback runs (NULL: never), answer    *)
(* the offset of the date it brings (NULL: it brings err); with both due   *)
(* at the same time, timerFirst tells which one the event loop runs first. *)
(* Result: the time after which the promise settles, and whether it        *)
(* resolves.                                                               *)
(***************************************************************************)
\* (variant: the promise waits for the callback whenever there is one)
getNtpTime_UsesLate(timeout, arrival, answer, timerFirst) ==
  IF arrival = NULL
  THEN [after |-> timeout, ok |-> FALSE]
  ELSE [after |-> arrival, ok |-> answer # NULL]

getNtpTime(timeout, arrival, answer, timerFirst) ==
  IF arrival = NULL \/ arrival > timeout \/ (arrival = timeout /\ timerFirst)
  THEN [after |-> timeout, ok |-> FALSE]
  ELSE [after |-> arrival, ok |-> answer # NULL]

\* await this.getNtpTime(server, config.timeout) of call c, from the call to
\* the turn of the loop that follows it
AwaitQuery(c, arrival, answer, timerFirst) ==
  /\ calls[c].pc = "querying"
  /\ LET cl == calls[c]
         r == getNtpTime(cl.cfg.timeout, arrival, answer, timerFirst)
     IN IF r.ok
        THEN Continue(c, Append(cl.results,
                                [server |-> cl.server, offset |-> Ms(answer)]),
                      <<>>, clock + r.after)
        ELSE Continue(c, cl.results,
                      <<[type |-> "error", server |-> cl.server]>>,
                      clock + r.after)

(***************************************************************************)
(* The setTimeout callback of applyGradualCorrection fires                 *)
(***************************************************************************)
Tick(tm) ==
  /\ tm \in BagToSet(timers)
  /\ tm.due <= clock
  /\ LET r == applyGradualCorrection(This, tm.rate, clock)
     IN /\ Assign(r.this)
        /\ timers' = Scheduled(timers (-) SetToBag({tm}), r.delay, tm.rate, clock)
        /\ emitted' = r.emit
        /\ observed' = Seen(r.emit, r.this)
  /\ forced' = FALSE
  /\ UNCHANGED throwing
  /\ UNCHANGED <<config, intervals, calls, clock, syncCalls>>

\* the pending callbacks, each marked as pending during a forceCorrection()
MarkBeforeForce(bag) ==
  LET marked(tm) == [tm EXCEPT !.beforeForce = TRUE]
      unmarked(tm) == [tm EXCEPT !.beforeForce = FALSE]
      count(tm) == IF tm \in BagToSet(bag) THEN bag[tm] ELSE 0
  IN [m \in {marked(tm) : tm \in BagToSet(bag)} |->
        count(m) + count(unmarked(m))]

\* forceCorrection() leaves the pending setTimeout callbacks armed
ForceCorrection ==
  /\ LET r == forceCorrection(This)
     IN /\ Assign(r.this)
        /\ emitted' = r.emit
        /\ observed' = Seen(r.emit, r.this)
  /\ timers' = MarkBeforeForce(timers)
  /\ forced' = TRUE
  /\ UNCHANGED throwing
  /\ UNCHANGED <<config, intervals, calls, clock, syncCalls>>

SmoothOptions == {NoOptions, [correctionRate |-> 10]}

SetSmoothCorrection(enabled, options) ==
  /\ config' = setSmoothCorrection(config, enabled, options)
  /\ emitted' = <<>>
  /\ observed' = <<>>
  /\ forced' = FALSE
  /\ UNCHANGED throwing
  /\ UNCHANGED <<isSync, lastSyncTime, systemOffset, syncDate, targetOffset,
                 currentOffset, correctionInProgress, correctionStartTime,
                 autoSyncTimer, timers, intervals, calls, clock, runStart,
                 syncCalls>>

\* on(e, listener) with a listener that throws
Subscribe(e) ==
  /\ e \notin throwing
  /\ throwing' = throwing \cup {e}
  /\ emitted' = <<>>
  /\ observed' = <<>>
  /\ forced' = FALSE
  /\ UNCHANGED <<isSync, lastSyncTime, systemOffset, syncDate, targetOffset,
                 currentOffset, correctionInProgress, correctionStartTime,
                 autoSyncTimer, config, timers, intervals, calls, clock,
                 runStart, syncCalls>>

\* now() is called: the events it emits (the time it returns is now(This, clock))
Now ==
  /\ emitted' = now(This, clock).emit
  /\ observed' = Seen(now(This, clock).emit, This)
  /\ forced' = FALSE
  /\ UNCHANGED throwing
  /\ UNCHANGED <<isSync, lastSyncTime, systemOffset, syncDate, targetOffset,
                 currentOffset, correctionInProgress, correctionStartTime,
                 autoSyncTimer, config, timers, intervals, calls, clock,
                 runStart, syncCalls>>

(***************************************************************************)
(* Time passes.  Timers fire on time: time passes to the due time of a     *)
(* pending timer only when no timer is due, and no further.  A stall (the  *)
(* event loop kept busy, the process suspended) lets time pass with timers *)
(* pending, which then fire late.                                          *)
(***************************************************************************)
Delays ==
  LET dues == {tm.due : tm \in BagToSet(timers)} \cup {iv.due : iv \in intervals}
  IN {Stall} \cup
     {x - clock : x \in {x \in dues : \A y \in dues : clock < x /\ x <= y}}

Advance(d) ==
  /\ clock + d <= MaxClock
  /\ clock' = clock + d
  /\ emitted' = <<>>
  /\ observed' = <<>>
  /\ forced' = FALSE
  /\ UNCHANGED throwing
  /\ UNCHANGED <<isSync, lastSyncTime, systemOffset, syncDate, targetOffset,
                 currentOffset, correctionInProgress, correctionStartTime,
                 autoSyncTimer, config, timers, intervals, calls, runStart,
                 syncCalls>>

Next ==
  \/ \E c \in Calls, options \in SyncOptions : SyncStart(c, options)
  \/ \E c \in Calls, o \in Offsets : SyncQueryOk(c, o)
  \/ \E c \in Calls : SyncQueryFail(c)
  \/ \E tm \in BagToSet(timers) : Tick(tm)
  \/ correctionInProgress /\ ForceCorrection  \* (on a settled clock: SpecForce)
  \/ \E enabled \in BOOLEAN, options \in SmoothOptions :
       SetSmoothCorrection(enabled, options)
  \/ \E d \in Delays : Advance(d)

Spec == Init /\ [][Next]_vars

(***************************************************************************)
(* The sampler: an instance with the three default servers, one call at a  *)
(* time, timers on time.                                                   *)
(***************************************************************************)
InitServers == constructed([correctionRate |-> 9])

NextServers ==
  \/ SyncStart(1, NoOptions)
  \/ \E o \in SampleOffsets : SyncQueryOk(1, o)
  \/ SyncQueryFail(1)
  \/ \E tm \in BagToSet(timers) : Tick(tm)
  \/ \E d \in Delays \ {Stall} : Advance(d)

SpecServers == InitServers /\ [][NextServers]_vars

(***************************************************************************)
(* The correction runs at every rate 0.1, 0.2, ... 1.0, one call at a      *)
(* time.                                                                   *)
(***************************************************************************)
InitRates ==
  \E rate \in 1..RateDen :
    constructed([servers |-> <<"pool.ntp.org">>, correctionRate |-> rate])

NextRates ==
  \/ SyncStart(1, NoOptions)
  \/ \E o \in RunOffsets : SyncQueryOk(1, o)
  \/ \E tm \in BagToSet(timers) : Tick(tm)
  \/ \E d \in Delays : Advance(d)

SpecRates == InitRates /\ [][NextRates]_vars

(***************************************************************************)
(* An instance configured with four servers; a call may switch coherence   *)
(* validation off.  One call at a time, timers on time.                    *)
(***************************************************************************)
FourServers ==
  <<"pool.ntp.org", "time.google.com", "time.cloudflare.com", "time.nist.gov">>

InitFour == constructed([servers |-> FourServers, correctionRate |-> 9])

FourOptions == {NoOptions, [coherenceValidation |-> FALSE]}

NextFour ==
  \/ \E options \in FourOptions : SyncStart(1, options)
  \/ \E o \in RunOffsets : SyncQueryOk(1, o)
  \/ SyncQueryFail(1)
  \/ \E tm \in BagToSet(timers) : Tick(tm)
  \/ \E d \in Delays \ {Stall} : Advance(d)

SpecFour == InitFour /\ [][NextFour]_vars

(***************************************************************************)
(* An instance constructed with autoSync: the first successful sync arms   *)
(* the interval timer; direct and automatic calls, timers on time.         *)
(***************************************************************************)
AutoSyncInterval == 10000

InitAuto ==
  constructed([autoSync |-> TRUE, autoSyncInterval |-> AutoSyncInterval,
               correctionRate |-> 9])

NextAuto ==
  \/ \E c \in Calls : SyncStart(c, NoOptions)
  \/ \E iv \in intervals, c \in Calls : AutoSyncTick(iv, c)
  \/ StopAutoSync
  \/ \E c \in Calls, o \in RunOffsets : SyncQueryOk(c, o)
  \/ \E c \in Calls : SyncQueryFail(c)
  \/ \E tm \in BagToSet(timers) : Tick(tm)
  \/ \E d \in Delays \ {Stall} : Advance(d)

SpecAuto == InitAuto /\ [][NextAuto]_vars

(***************************************************************************)
(* forceCorrection() among the syncs and ticks of one call at a time,      *)
(* timers on time.                                                         *)
(***************************************************************************)
NextForce ==
  \/ SyncStart(1, NoOptions)
  \/ \E o \in Offsets : SyncQueryOk(1, o)
  \/ \E tm \in BagToSet(timers) : Tick(tm)
  \/ ForceCorrection
  \/ \E d \in Delays \ {Stall} : Advance(d)

SpecForce == Init /\ [][NextForce]_vars

(***************************************************************************)
(* Hours without sync: now() is called while time passes to the next timer *)
(* or for an hour, or an hour and a millisecond, at once.  One call of     *)
(* sync() at a time.                                                       *)
(***************************************************************************)
MaxDriftClock == 2 * DriftLimit + MaxClock

Hours == {DriftLimit, DriftLimit + 1}

InitDrift ==
  constructed([servers |-> <<"pool.ntp.org">>, correctionRate |-> 5])

Sleep(d) ==
  /\ clock + d <= MaxDriftClock
  /\ clock' = clock + d
  /\ emitted' = <<>>
  /\ observed' = <<>>
  /\ forced' = FALSE
  /\ UNCHANGED throwing
  /\ UNCHANGED <<isSync, lastSyncTime, systemOffset, syncDate, targetOffset,
                 currentOffset, correctionInProgress, correctionStartTime,
                 autoSyncTimer, config, timers, intervals, calls, runStart,
                 syncCalls>>

NextDrift ==
  \/ SyncStart(1, NoOptions)
  \/ \E o \in RunOffsets : SyncQueryOk(1, o)
  \/ SyncQueryFail(1)
  \/ \E tm \in BagToSet(timers) : Tick(tm)
  \/ Now
  \/ \E d \in (Delays \ {Stall}) \cup Hours : Sleep(d)

SpecDrift == InitDrift /\ [][NextDrift]_vars

(***************************************************************************)
(* Configurations that contradict themselves, given to sync() as options   *)
(* or set with setSmoothCorrection().  One call at a time, timers on time. *)
(***************************************************************************)
ConfigOptions ==
  {NoOptions, [maxOffsetThreshold |-> 1000], [correctionRate |-> 0],
   [servers |-> <<>>]}

JumpOptions == {NoOptions, [maxCorrectionJump |-> 5000]}

NextConfig ==
  \/ \E options \in ConfigOptions : SyncStart(1, options)
  \/ \E o \in RunOffsets : SyncQueryOk(1, o)
  \/ SyncQueryFail(1)
  \/ \E tm \in BagToSet(timers) : Tick(tm)
  \/ \E options \in JumpOptions : SetSmoothCorrection(TRUE, options)
  \/ \E d \in Delays \ {Stall} : Advance(d)

SpecConfig == Init /\ [][NextConfig]_vars

(***************************************************************************)
(* Subscribers that throw: an instance with the three default servers, one *)
(* call at a time, timers on time.                                         *)
(***************************************************************************)
EventTypes ==
  {"sync", "error", "coherenceWarning", "driftWarning", "correctionComplete"}

NextThrow ==
  \/ \E e \in EventTypes : Subscribe(e)
  \/ SyncStart(1, NoOptions)
  \/ \E o \in RunOffsets : SyncQueryOk(1, o)
  \/ SyncQueryFail(1)
  \/ \E tm \in BagToSet(timers) : Tick(tm)
  \/ \E d \in Delays \ {Stall} : Advance(d)

SpecThrow == InitServers /\ [][NextThrow]_vars

(***************************************************************************)
(* An instance that corrects every difference smoothly                     *)
(* (maxCorrectionJump 0), at rate 0.5.  One call at a time, timers on      *)
(* time.                                                                   *)
(***************************************************************************)
NearOffsets == {0, 2499, 2500}

InitSmooth ==
  constructed([servers |-> <<"pool.ntp.org">>, maxCorrectionJump |-> 0,
               correctionRate |-> 5])

NextSmooth ==
  \/ SyncStart(1, NoOptions)
  \/ \E o \in NearOffsets : SyncQueryOk(1, o)
  \/ SyncQueryFail(1)
  \/ \E tm \in BagToSet(timers) : Tick(tm)
  \/ \E d \in Delays \ {Stall} : Advance(d)

SpecSmooth == InitSmooth /\ [][NextSmooth]_vars

(***************************************************************************)
(* The queries in time: an instance with the three default servers whose   *)
(* servers answer early, at the timeout, late or never; offsets close      *)
(* enough for instant correction, so that no correction timer is pending   *)
(* while a query waits.  One call at a time.  Fairness: the timer of a     *)
(* query that is still waiting fires; this is WF_vars of the timeout step, *)
(* which is enabled exactly while the call is querying.                    *)
(***************************************************************************)
Arrivals ==
  {NULL, DefaultConfig.timeout \div 50, DefaultConfig.timeout - 1,
   DefaultConfig.timeout, DefaultConfig.timeout + 1}

QueryAnswers == {NULL, 0, 900}

NextQuery ==
  \/ SyncStart(1, NoOptions)
  \/ \E arrival \in Arrivals, answer \in QueryAnswers, timerFirst \in BOOLEAN :
       AwaitQuery(1, arrival, answer, timerFirst)

SpecQuery ==
  /\ InitServers
  /\ [][NextQuery]_vars
  /\ \/ []<>(calls[1].pc # "querying")
     \/ []<><<AwaitQuery(1, NULL, NULL, TRUE)>>_vars

(***************************************************************************)
(* Auto-sync started by the application, by the autoSync option of a call  *)
(* and stopped, with two calls in flight; offsets close enough for instant *)
(* correction.  Timers on time.                                            *)
(***************************************************************************)
AutoOptions ==
  {NoOptions, [autoSync |-> TRUE, autoSyncInterval |-> AutoSyncInterval]}

NextTimers ==
  \/ \E c \in Calls, options \in AutoOptions : SyncStart(c, options)
  \/ StartAutoSync(2 * AutoSyncInterval)
  \/ StopAutoSync
  \/ \E iv \in intervals, c \in Calls : AutoSyncTick(iv, c)
  \/ \E c \in Calls, o \in QueryAnswers \ {NULL} : SyncQueryOk(c, o)
  \/ \E c \in Calls : SyncQueryFail(c)
  \/ \E d \in Delays \ {Stall} : Advance(d)

SpecTimers == Init /\ [][NextTimers]_vars

TypeOK ==
  /\ isSync \in BOOLEAN
  /\ correctionInProgress \in BOOLEAN
  /\ clock \in StartClock..MaxClock

(***************************************************************************)
(* Vocabulary of the properties                                            *)
(***************************************************************************)
\* the promise of call c resolves / rejects in this step
Resolves(c) == calls[c].pc = "querying" /\ calls'[c].pc = "resolved"
Rejects(c) == calls[c].pc = "querying" /\ calls'[c].pc = "rejected"

\* the sample of the server call c is waiting for, when it answers o ms
Sample(c, o) == [server |-> calls[c].server, offset |-> Ms(o)]

\* call c completes successfully in this step and R is the offset it selected
Completes(c, R) ==
  /\ Resolves(c)
  /\ \/ \E o \in Offsets \cup SampleOffsets :
          /\ SyncQueryOk(c, o)
          /\ R = selectResult(Append(calls[c].results, Sample(c, o))).offset
     \/ /\ SyncQueryFail(c)
        /\ calls[c].results # <<>>
        /\ R = selectResult(calls[c].results).offset

OffsetValues == {Ms(o) : o \in Offsets \cup SampleOffsets}

\* the smooth-correction condition of the specification, for call c, offset R
SmoothCase(c, R) ==
  /\ isSync
  /\ calls[c].cfg.smoothCorrection
  /\ Abs(R - currentOffset) > Ms(calls[c].cfg.maxCorrectionJump)
  /\ Abs(R - currentOffset) < Ms(calls[c].cfg.maxOffsetThreshold)

LastEvent == emitted[Len(emitted)]

(***************************************************************************)
(* C1: whenever correctionInProgress is false, the applied offset          *)
(* (currentOffset) equals the target offset (targetOffset).                *)
(***************************************************************************)
C1_SettledAppliedIsTarget ==
  ~correctionInProgress => currentOffset = targetOffset

\* a correction run has just been ended by convergence, timeout or force
C1_Witness ==
  /\ ~correctionInProgress
  /\ isSync
  /\ emitted # <<>>
  /\ emitted[1].type = "correctionComplete"

C3_AllFailedLeavesState ==
  [][\A c \in Calls :
       /\ (/\ SyncQueryFail(c)
           /\ calls[c].results = <<>>
           /\ calls[c].idx = Len(serversToTest(calls[c].cfg))) => Rejects(c)
       /\ Rejects(c) =>
            UNCHANGED <<lastSyncTime, syncDate, isSync, systemOffset,
                        currentOffset, targetOffset, correctionInProgress>>]_vars

\* a sync has been rejected while a correction of an earlier sync is running
C3_Witness ==
  /\ \E c \in Calls : calls[c].pc = "rejected"
  /\ isSync
  /\ correctionInProgress
  /\ emitted # <<>>
  /\ LastEvent.type = "error"

(***************************************************************************)
(* C4: now() and timestamp() raise the not-synchronized error in every     *)
(* state before the first successful sync, and once one sync has succeeded *)
(* they never raise it again: isSynchronized() is false initially and      *)
(* never goes from true back to false.                                     *)
(***************************************************************************)
NowRaises == ~now(This, clock).ok

C4_NotSynchronizedUntilFirstSync ==
  /\ NowRaises
  /\ ~isSynchronized(This)
  /\ [][/\ NowRaises' <=> (NowRaises /\ ~\E c \in Calls : Resolves(c))
        /\ isSynchronized(This)' <=> ~NowRaises']_vars

\* synchronized, and a later sync has failed
C4_Witness ==
  /\ ~NowRaises
  /\ \E c \in Calls : calls[c].pc = "rejected"

(***************************************************************************)
(* C5: sync() calls are not serialized: every call that completes writes   *)
(* the offset it selected as targetOffset and as the real offset, also     *)
(* when a call that was started after it has completed before it.          *)
(***************************************************************************)
C5_LastCompletedWins ==
  [][\A c \in Calls, R \in OffsetValues :
       Completes(c, R) => targetOffset' = R /\ systemOffset' = R]_vars

\* a call that was overtaken by a younger one has completed last
C5_Witness ==
  \E c \in Calls :
    /\ calls[c].pc = "resolved"
    /\ calls[c].stale
    /\ emitted # <<>>
    /\ LastEvent.type = "sync"
    /\ \A d \in Calls : calls[d].pc # "querying"

(***************************************************************************)
(* C6: a sync that completes while a correction is Converging supersedes   *)
(* it: targetOffset becomes the new offset R and the instant/smooth        *)
(* decision is taken against the current applied offset; if it is instant  *)
(* the correction collapses at once (currentOffset = R,                    *)
(* correctionInProgress = false), otherwise the correction stays in        *)
(* progress and the applied offset moves toward R.                         *)
(***************************************************************************)
C6_SyncSupersedesConvergence ==
  [][\A c \in Calls, R \in OffsetValues :
       (Completes(c, R) /\ correctionInProgress) =>
         /\ targetOffset' = R
         /\ ~SmoothCase(c, R) =>
              currentOffset' = R /\ ~correctionInProgress'
         /\ SmoothCase(c, R) =>
              /\ correctionInProgress'
              /\ Abs(R - currentOffset') < Abs(R - currentOffset)]_vars

\* a sync completed after the run began, and the run goes on toward its offset
C6_Witness ==
  /\ correctionInProgress
  /\ runStart # NULL
  /\ runStart < lastSyncTime
  /\ emitted # <<>>
  /\ LastEvent.type = "sync"
  /\ LastEvent.gradualCorrection
  /\ targetOffset = LastEvent.offset

C8_RunEndsByTimeout ==
  [][\A tm \in BagToSet(timers) :
       (/\ Tick(tm)
        /\ correctionInProgress
        /\ clock - runStart > CorrectionTimeout) =>
         ~correctionInProgress' /\ currentOffset' = targetOffset']_vars

(***************************************************************************)
(* C9: a sync that arrives mid-Converge and keeps the correction           *)
(* Converging does not restart the correction timeout clock: the elapsed   *)
(* time compared with the 30 s limit is measured from the Settled ->       *)
(* Converging transition.                                                  *)
(***************************************************************************)
C9_TimeoutClockNotRestarted ==
  (correctionInProgress /\ correctionStartTime # NULL) =>
    correctionStartTime = runStart

(***************************************************************************)
(* C10, as claimed: while smooth correction is disabled in the             *)
(* configuration, no state with correctionInProgress = true is observed    *)
(* and every successful sync leaves currentOffset = targetOffset = real    *)
(* offset.                                                                 *)
(***************************************************************************)
C10_NoConvergingWhileDisabled ==
  ~config.smoothCorrection => ~correctionInProgress

(***************************************************************************)
(* C10, amended: every sync called while smooth correction is disabled     *)
(* (its merged configuration has smoothCorrection false) results in        *)
(* currentOffset = targetOffset = real offset = R immediately with         *)
(* correctionInProgress false, and a correction is only ever started by    *)
(* the completion of a sync that was called with smooth correction enabled.*)
(***************************************************************************)
C10_DisabledSyncJumps ==
  [][/\ \A c \in Calls, R \in OffsetValues :
          (Completes(c, R) /\ ~calls[c].cfg.smoothCorrection) =>
            /\ currentOffset' = R
            /\ targetOffset' = R
            /\ systemOffset' = R
            /\ ~correctionInProgress'
     /\ (~correctionInProgress /\ correctionInProgress') =>
          \E c \in Calls : Resolves(c) /\ calls[c].cfg.smoothCorrection]_vars

\* a sync with smooth correction disabled has jumped by a difference that
\* lies between the jump limit and the threshold
C10_Witness ==
  /\ ~config.smoothCorrection
  /\ ~correctionInProgress
  /\ emitted # <<>>
  /\ LastEvent.type = "sync"
  /\ ~LastEvent.gradualCorrection
  /\ LastEvent.offsetDiff > Ms(config.maxCorrectionJump)
  /\ LastEvent.offsetDiff < Ms(config.maxOffsetThreshold)
  /\ currentOffset = LastEvent.offset

(***************************************************************************)
(* C11: forceCorrection() called while Converging sets currentOffset =     *)
(* targetOffset, sets correctionInProgress = false and emits exactly one   *)
(* correctionComplete event, flagged forced, whose finalOffset is the      *)
(* target.                                                                 *)
(***************************************************************************)
C11_ForceCompletesRun ==
  [][(ForceCorrection /\ correctionInProgress) =>
       /\ currentOffset' = targetOffset
       /\ targetOffset' = targetOffset
       /\ ~correctionInProgress'
       /\ emitted' = <<[type |-> "correctionComplete",
                        finalOffset |-> targetOffset,
                        flag |-> "forced"]>>]_vars

\* a run that was part-way to its target has been forced
C11_Witness ==
  /\ forced
  /\ Len(emitted) = 1
  /\ emitted[1].flag = "forced"
  /\ emitted[1].finalOffset = currentOffset
  /\ currentOffset = targetOffset
  /\ ~correctionInProgress
  /\ timers # EmptyBag

(***************************************************************************)
(* C12: forceCorrection() called while Settled changes no state and emits  *)
(* no correctionComplete event; in particular two consecutive calls emit   *)
(* at most one event.                                                      *)
(***************************************************************************)
PendingCallbacks == {<<tm.due, tm.rate>> : tm \in BagToSet(timers)}

C12_ForceSettledIsNoOp ==
  [][/\ (ForceCorrection /\ ~correctionInProgress) =>
          /\ UNCHANGED <<isSync, lastSyncTime, systemOffset, syncDate,
                         targetOffset, currentOffset, correctionInProgress,
                         correctionStartTime, autoSyncTimer, config,
                         intervals, calls, PendingCallbacks>>
          /\ emitted' = <<>>
     /\ (ForceCorrection /\ forced) =>
          Len(emitted) + Len(emitted') <= 1]_vars

\* forceCorrection() has been called on a synchronized, Settled clock while
\* a tick of an ended run is still armed
C12_Witness ==
  /\ forced
  /\ emitted = <<>>
  /\ isSync
  /\ ~correctionInProgress
  /\ timers # EmptyBag

(***************************************************************************)
(* C13: forceCorrection() cancels the correction tick chain: no tick that  *)
(* was scheduled before the call changes the applied offset after the      *)
(* call, including when a new smooth correction starts before that tick's  *)
(* timer fires.                                                            *)
(***************************************************************************)
C13_ForceCancelsTicks ==
  [][\A tm \in BagToSet(timers) :
       (Tick(tm) /\ tm.beforeForce) => currentOffset' = currentOffset]_vars

(***************************************************************************)
(* Vocabulary of the sampler properties                                    *)
(***************************************************************************)
\* what the awaited server of a call can do: answer an offset, or fail (NULL)
Answers == Offsets \cup SampleOffsets \cup {NULL}

\* this step is the answer a of the server call c waits for
Answered(c, a) == IF a = NULL THEN SyncQueryFail(c) ELSE SyncQueryOk(c, a)

\* the successful samples of call c once that server has answered a
SamplesAfter(c, a) ==
  IF a = NULL THEN calls[c].results ELSE Append(calls[c].results, Sample(c, a))

\* the loop of call c ends with that answer
LastAnswer(c) == calls[c].pc = "querying" /\ calls'[c].pc # "querying"

\* max - min of the offsets of the samples rs
Spread(rs) ==
  LET D == {rs[i].offset - rs[j].offset : i, j \in 1..Len(rs)}
  IN CHOOSE v \in D : \A w \in D : w <= v

\* m is the offset of a sample with at least half of the samples on each side
IsMedian(m, rs) ==
  /\ \E i \in 1..Len(rs) : rs[i].offset = m
  /\ 2 * Cardinality({i \in 1..Len(rs) : rs[i].offset <= m}) >= Len(rs)
  /\ 2 * Cardinality({i \in 1..Len(rs) : rs[i].offset >= m}) >= Len(rs)

\* the position of server x in the configured list
Position(servers, x) == CHOOSE k \in 1..Len(servers) : servers[k] = x

\* the first sample of rs comes from the earliest configured server of rs
FirstInOrder(rs, servers) ==
  \A i \in 2..Len(rs) :
    Position(servers, rs[1].server) < Position(servers, rs[i].server)

(***************************************************************************)
(* C14: when two or more sources succeed and max(offsets) - min(offsets)   *)
(* > 100 ms, the offset selected by sync is the median of the successful   *)
(* offsets (for [40, 45, 9000] it is 45); when the spread is at most       *)
(* 100 ms, or only one source succeeded, the selected offset is that of    *)
(* the first successful source in configured order.                        *)
(***************************************************************************)
C14_MedianOrFirst ==
  [][\A c \in Calls, a \in Answers :
       (Answered(c, a) /\ Resolves(c)) =>
         LET rs == SamplesAfter(c, a) IN
         /\ systemOffset' = targetOffset'
         /\ (Len(rs) >= 2 /\ Spread(rs) > Ms(100)) =>
              IsMedian(systemOffset', rs)
         /\ (/\ Len(rs) = 3
             /\ {rs[i].offset : i \in 1..3} = {Ms(40), Ms(45), Ms(9000)}) =>
              systemOffset' = Ms(45)
         /\ (Len(rs) = 1 \/ Spread(rs) <= Ms(100)) =>
              /\ systemOffset' = rs[1].offset
              /\ LastEvent'.server = rs[1].server
              /\ FirstInOrder(rs, calls[c].cfg.servers)]_vars

\* the three servers answered 40, 45 and 9000 in some order; 45 was selected
C14_Witness ==
  /\ Len(emitted) = 2
  /\ emitted[1].type = "coherenceWarning"
  /\ emitted[1].variance = Ms(8960)
  /\ Len(emitted[1].servers) = 3
  /\ emitted[2].type = "sync"
  /\ emitted[2].offset = Ms(45)
  /\ systemOffset = Ms(45)

(***************************************************************************)
(* C15: a coherenceWarning event is emitted during a sync if and only if   *)
(* at least two sources succeeded and their spread exceeds 100 ms; it is   *)
(* emitted once, carries variance = max - min and the list of sampled      *)
(* servers, and never aborts the sync, which still completes successfully. *)
(***************************************************************************)
CoherenceWarnings(events) ==
  Cardinality({i \in 1..Len(events) : events[i].type = "coherenceWarning"})

C15_CoherenceWarningIffSpread ==
  [][/\ \A c \in Calls, a \in Answers :
          Answered(c, a) =>
            LET rs == SamplesAfter(c, a)
                suspicious == /\ LastAnswer(c)
                              /\ Len(rs) >= 2
                              /\ Spread(rs) > Ms(100)
            IN /\ CoherenceWarnings(emitted') = IF suspicious THEN 1 ELSE 0
               /\ suspicious =>
                    /\ \E i \in 1..Len(emitted') :
                         emitted'[i] = [type |-> "coherenceWarning",
                                        variance |-> Spread(rs),
                                        servers |-> rs]
                    /\ Resolves(c)
                    /\ LastEvent'.type = "sync"
     /\ (\A c \in Calls, a \in Answers : ~Answered(c, a)) =>
          CoherenceWarnings(emitted') = 0]_vars

\* two servers answered more than 100 ms apart, the third failed, and the
\* sync completed
C15_Witness ==
  /\ calls[1].pc = "resolved"
  /\ Len(emitted) = 3
  /\ emitted[1].type = "error"
  /\ emitted[2].type = "coherenceWarning"
  /\ Len(emitted[2].servers) = 2
  /\ emitted[2].variance > Ms(100)
  /\ emitted[3].type = "sync"
  /\ isSync

(***************************************************************************)
(* C16: with coherenceValidation enabled (the default), a sync queries at  *)
(* most the first three configured servers, in configured order, and never *)
(* queries a server beyond the third, even when all three fail; with it    *)
(* disabled, every configured server is eligible.                          *)
(***************************************************************************)
C16_AtMostThreeServers ==
  /\ [](\A c \in Calls :
          calls[c].pc = "querying" =>
            /\ calls[c].idx \in 1..Len(calls[c].cfg.servers)
            /\ calls[c].server = calls[c].cfg.servers[calls[c].idx]
            /\ calls[c].cfg.coherenceValidation => calls[c].idx <= 3)
  /\ [][\A c \in Calls :
          /\ (calls[c].pc # "querying" /\ calls'[c].pc = "querying") =>
               calls'[c].idx = 1
          /\ (calls[c].pc = "querying" /\ calls'[c].pc = "querying") =>
               calls'[c].idx \in {calls[c].idx, calls[c].idx + 1}
          /\ (/\ SyncQueryFail(c)
              /\ calls[c].cfg.coherenceValidation
              /\ calls[c].idx = 3
              /\ calls[c].results = <<>>) => Rejects(c)
          /\ (/\ \E a \in Answers : Answered(c, a)
              /\ ~calls[c].cfg.coherenceValidation
              /\ calls[c].idx < Len(calls[c].cfg.servers)) =>
               /\ calls'[c].pc = "querying"
               /\ calls'[c].idx = calls[c].idx + 1]_vars

\* four servers configured, validation enabled: the call was rejected when
\* the third server failed
C16_Witness ==
  /\ Len(config.servers) = 4
  /\ calls[1].pc = "rejected"
  /\ Len(emitted) = 1
  /\ emitted[1].type = "error"
  /\ emitted[1].server = config.servers[3]

(***************************************************************************)
(* C17: sync() rejects with the all-sources-unreachable error only if      *)
(* every attempted source failed: a single source's failure is recorded    *)
(* and the next source is tried, and if at least one attempted source      *)
(* returns a time the sync succeeds.                                       *)
(***************************************************************************)
C17_RejectsOnlyIfAllFailed ==
  [][\A c \in Calls :
       /\ Rejects(c) =>
            /\ SyncQueryFail(c)
            /\ calls[c].results = <<>>
            /\ calls[c].idx = Min(3, Len(calls[c].cfg.servers))
       /\ (SyncQueryFail(c) /\ ~LastAnswer(c)) =>
            /\ emitted' = <<[type |-> "error", server |-> calls[c].server]>>
            /\ calls'[c].results = calls[c].results
            /\ calls'[c].server = calls[c].cfg.servers[calls[c].idx + 1]
       /\ \A a \in Answers :
            (Answered(c, a) /\ LastAnswer(c) /\ SamplesAfter(c, a) # <<>>) =>
              /\ Resolves(c)
              /\ isSync']_vars

\* the first and the third server failed, the second answered: the sync
\* succeeded with the second server
C17_Witness ==
  /\ calls[1].pc = "resolved"
  /\ Len(emitted) = 2
  /\ emitted[1] = [type |-> "error", server |-> config.servers[3]]
  /\ emitted[2].type = "sync"
  /\ emitted[2].server = config.servers[2]
  /\ emitted[2].coherenceVariance = 0

(***************************************************************************)
(* C18: when a query to a source fails, sync repeats the query for that    *)
(* same source up to `retries` times (default 3) before moving on to the   *)
(* next source.  (The loop queries each source once, so every failed query *)
(* is the first failure of its source.)                                    *)
(***************************************************************************)
C18_FailedQueryIsRetried ==
  [][\A c \in Calls :
       (SyncQueryFail(c) /\ calls[c].cfg.retries >= 1) =>
         /\ calls'[c].pc = "querying"
         /\ calls'[c].server = calls[c].server]_vars

(***************************************************************************)
(* C19: during a sync, one error event is emitted for each failed source   *)
(* attempt, naming that source, and an error event is also emitted when    *)
(* the sync fails as a whole because no source responded, for a sync()     *)
(* called directly as well as for an auto-sync tick.                       *)
(***************************************************************************)
\* the error event of a sync that failed as a whole
IsSyncFailure(e) == e.type = "error" /\ "message" \in DOMAIN e

C19_ErrorEventsPerSourceAndSync ==
  [][\A c \in Calls :
       /\ SyncQueryFail(c) =>
            /\ emitted' # <<>>
            /\ emitted'[1] = [type |-> "error", server |-> calls[c].server]
       /\ Rejects(c) =>
            \E i \in 1..Len(emitted') : IsSyncFailure(emitted'[i])]_vars

(***************************************************************************)
(* C20: every successful sync emits exactly one sync event, after the      *)
(* offsets, the correction flag and the anchor have been updated, whose    *)
(* payload matches the state at emission (server = selected source,        *)
(* offset = real offset, correctedOffset = applied offset,                 *)
(* gradualCorrection = correctionInProgress, coherenceVariance); a failed  *)
(* sync emits no sync event.                                               *)
(***************************************************************************)
SyncEvents(events) ==
  Cardinality({i \in 1..Len(events) : events[i].type = "sync"})

C20_OneSyncEventPerSuccess ==
  [][/\ \A c \in Calls, a \in Answers :
          Answered(c, a) =>
            LET rs == SamplesAfter(c, a) IN
            /\ SyncEvents(emitted') = IF Resolves(c) THEN 1 ELSE 0
            /\ Resolves(c) =>
                 /\ LastEvent'.type = "sync"
                 /\ isSync'
                 /\ lastSyncTime' = clock
                 /\ LastEvent'.offset = systemOffset'
                 /\ LastEvent'.correctedOffset = currentOffset'
                 /\ LastEvent'.gradualCorrection = correctionInProgress'
                 /\ LastEvent'.coherenceVariance =
                      IF Len(rs) >= 2 THEN Spread(rs) ELSE 0
                 /\ \E i \in 1..Len(rs) :
                      /\ rs[i].server = LastEvent'.server
                      /\ rs[i].offset = systemOffset'
     /\ (\A c \in Calls, a \in Answers : ~Answered(c, a)) =>
          SyncEvents(emitted') = 0]_vars

\* the sync event of a sync that went smooth after the servers disagreed:
\* applied and real offset differ and the event reports both
C20_Witness ==
  /\ calls[1].pc = "resolved"
  /\ emitted # <<>>
  /\ LastEvent.type = "sync"
  /\ LastEvent.gradualCorrection
  /\ correctionInProgress
  /\ LastEvent.coherenceVariance > 0
  /\ LastEvent.offset = systemOffset
  /\ LastEvent.correctedOffset = currentOffset
  /\ currentOffset # systemOffset

(***************************************************************************)
(* C24: after a successful sync, now() returns anchorWallClock + (current  *)
(* monotonic time - anchorMonotonic) + activeOffset, where activeOffset is *)
(* the applied offset while a correction is in progress and the target     *)
(* offset otherwise; the code's use of the real offset (systemOffset) in   *)
(* the Settled case is equivalent because systemOffset = targetOffset in   *)
(* every reachable state.                                                  *)
(***************************************************************************)
C24_NowIsAnchorPlusElapsedPlusActive ==
  /\ systemOffset = targetOffset
  /\ isSync =>
       /\ now(This, clock).ok
       /\ now(This, clock).time =
            Ms(syncDate) + Ms(clock - lastSyncTime)
              + (IF correctionInProgress THEN currentOffset ELSE targetOffset)

\* a read in the middle of a correction, some time after the anchor
C24_Witness ==
  /\ isSync
  /\ correctionInProgress
  /\ clock > lastSyncTime
  /\ currentOffset # targetOffset
  /\ now(This, clock).time = Ms(syncDate) + Ms(clock - lastSyncTime) + currentOffset

(***************************************************************************)
(* C26: offset() never raises and never blocks; it returns 0 before the    *)
(* first successful sync and afterwards the active offset, which in every  *)
(* state equals the applied offset (stats().correctedOffset).              *)
(***************************************************************************)
C26_OffsetIsApplied ==
  /\ offset(This) \in Int
  /\ ~isSync => offset(This) = 0
  /\ isSync =>
       offset(This) = (IF correctionInProgress THEN currentOffset ELSE systemOffset)
  /\ offset(This) = stats(This, clock).correctedOffset

\* a read in the middle of a correction: the applied offset is not yet the
\* real offset
C26_Witness ==
  /\ isSync
  /\ correctionInProgress
  /\ stats(This, clock).correctedOffset # stats(This, clock).offset
  /\ offset(This) = currentOffset
  /\ offset(This) # 0

(***************************************************************************)
(* C25: with smooth correction enabled, the time returned by now() is      *)
(* always increasing: of any two reads, the later one never returns an     *)
(* earlier time than the earlier one, across auto-syncs, anchor            *)
(* replacements and correction ticks.                                      *)
(***************************************************************************)
C25_NowNeverGoesBack ==
  [][(config.smoothCorrection /\ isSync) =>
       now(This, clock)'.time >= now(This, clock).time]_vars

(***************************************************************************)
(* C29: every correction run ends with exactly one correctionComplete      *)
(* event: whenever correctionInProgress goes from true to false (by        *)
(* convergence, by timeout, by forceCorrection, or because a later sync    *)
(* collapses the run) one correctionComplete event is emitted carrying the *)
(* final offset and a converged / timeout / forced flag, and none is       *)
(* emitted while Settled.                                                  *)
(***************************************************************************)
CorrectionCompletes(events) ==
  {i \in 1..Len(events) : events[i].type = "correctionComplete"}

C29_OneCompletionPerRun ==
  [][/\ Cardinality(CorrectionCompletes(emitted')) =
          IF correctionInProgress /\ ~correctionInProgress' THEN 1 ELSE 0
     /\ \A i \in CorrectionCompletes(emitted') :
          /\ emitted'[i].finalOffset = currentOffset'
          /\ emitted'[i].flag \in {"converged", "timeout", "forced"}]_vars

(***************************************************************************)
(* C21: a sync failure during an auto-sync tick is caught and reported     *)
(* through the error event and never propagates out of the timer callback; *)
(* the auto-sync timer stays armed, later ticks keep firing at the         *)
(* configured interval, and now()/offset() keep answering from the last    *)
(* good offset until a later sync succeeds.                                *)
(***************************************************************************)
\* the interval timer this.autoSyncTimer refers to is armed
AutoSyncArmed ==
  \E iv \in intervals :
    /\ iv.id = autoSyncTimer
    /\ iv.interval = config.autoSyncInterval
    /\ iv.due <= clock + iv.interval

C21_AutoSyncSurvivesFailure ==
  [][/\ \A c \in Calls :
          (Rejects(c) /\ calls[c].auto) =>
            /\ emitted' # <<>>
            /\ IsSyncFailure(LastEvent')
            /\ UNCHANGED <<autoSyncTimer, intervals>>
            /\ (autoSyncTimer # NULL) => AutoSyncArmed'
            /\ now(This, clock)' = now(This, clock)
            /\ offset(This)' = offset(This)
     /\ \A iv \in intervals, c \in Calls :
          AutoSyncTick(iv, c) =>
            /\ AutoSyncArmed'
            /\ \E jv \in intervals' :
                 jv.id = iv.id /\ jv.due = clock + config.autoSyncInterval
            /\ now(This, clock)' = now(This, clock)]_vars

\* an automatic sync has failed on a synchronized clock, and the timer is
\* armed for the next tick
C21_Witness ==
  /\ \E c \in Calls : calls[c].pc = "rejected" /\ calls[c].auto
  /\ emitted # <<>>
  /\ IsSyncFailure(LastEvent)
  /\ AutoSyncArmed
  /\ now(This, clock).ok
  /\ \E iv \in intervals : iv.due > clock

(***************************************************************************)
(* C22: stopAutoSync() cancels only the scheduling of future ticks: a sync *)
(* already in flight when it is called is not cancelled and, on            *)
(* completion, applies its result (offsets, anchor, sync event) as usual.  *)
(***************************************************************************)
\* call c as the program holds it (without the history fields)
CallOf(c) ==
  <<calls[c].pc, calls[c].cfg, calls[c].idx, calls[c].server, calls[c].results>>

C22_StopLeavesSyncInFlight ==
  [][/\ StopAutoSync =>
          /\ autoSyncTimer' = NULL
          /\ \A iv \in intervals' : iv.id # autoSyncTimer
          /\ \A c \in Calls : CallOf(c)' = CallOf(c)
          /\ UNCHANGED <<isSync, lastSyncTime, systemOffset, syncDate,
                         targetOffset, currentOffset, correctionInProgress,
                         timers>>
     /\ \A c \in Calls, a \in Answers :
          (Answered(c, a) /\ calls[c].stopped) =>
            LET rs == SamplesAfter(c, a) IN
            /\ (LastAnswer(c) /\ rs # <<>>) => Resolves(c)
            /\ Resolves(c) =>
                 /\ \E i \in 1..Len(rs) : rs[i].offset = systemOffset'
                 /\ targetOffset' = systemOffset'
                 /\ isSync'
                 /\ lastSyncTime' = clock
                 /\ syncDate' = clock
                 /\ LastEvent'.type = "sync"
                 /\ LastEvent'.offset = systemOffset'
                 /\ LastEvent'.correctedOffset = currentOffset']_vars

\* a sync that was in flight when stopAutoSync() cancelled the armed timer
\* has completed and replaced the anchor
C22_Witness ==
  \E c \in Calls :
    /\ calls[c].pc = "resolved"
    /\ calls[c].stopped
    /\ emitted # <<>>
    /\ LastEvent.type = "sync"
    /\ lastSyncTime = clock
    /\ clock > StartClock

(***************************************************************************)
(* C30: now() emits a driftWarning event carrying the elapsed time exactly *)
(* when more than one hour has elapsed since the anchor of the last        *)
(* successful sync, on every such call, and still returns a time; a        *)
(* successful sync replaces the anchor, so no warning is emitted again     *)
(* until another hour has passed without sync.                             *)
(***************************************************************************)
DriftWarnings(events) ==
  {i \in 1..Len(events) : events[i].type = "driftWarning"}

C30_DriftWarningAfterOneHour ==
  [][/\ Now =>
          /\ isSync => now(This, clock).ok
          /\ emitted' =
               IF isSync /\ clock - lastSyncTime > DriftLimit
               THEN <<[type |-> "driftWarning",
                       elapsed |-> clock - lastSyncTime]>>
               ELSE <<>>
     /\ DriftWarnings(emitted') # {} => Now
     /\ \A c \in Calls :
          Resolves(c) =>
            /\ lastSyncTime' = clock
            /\ now(This, clock)'.emit = <<>>]_vars

\* now() has been called more than an hour after the last sync
C30_Witness ==
  /\ isSync
  /\ clock - lastSyncTime > DriftLimit
  /\ emitted = <<[type |-> "driftWarning", elapsed |-> clock - lastSyncTime]>>
  /\ now(This, clock).ok

(***************************************************************************)
(* C28: sync() with a contradictory configuration (maxOffsetThreshold not  *)
(* greater than maxCorrectionJump, an empty server list, or a              *)
(* correctionRate that is not positive) fails with a configuration error   *)
(* before any source is queried and without changing clock state.          *)
(***************************************************************************)
Contradictory(cfg) ==
  \/ cfg.maxOffsetThreshold <= cfg.maxCorrectionJump
  \/ Len(cfg.servers) = 0
  \/ cfg.correctionRate <= 0

C28_ContradictoryConfigRejected ==
  [][\A c \in Calls, options \in ConfigOptions :
       (SyncStart(c, options) /\ Contradictory(Merge(config, options))) =>
         /\ calls'[c].pc = "rejected"
         /\ UNCHANGED <<isSync, lastSyncTime, systemOffset, syncDate,
                        targetOffset, currentOffset, correctionInProgress,
                        correctionStartTime>>]_vars

(***************************************************************************)
(* C27: a subscriber that throws while handling a sync, error,             *)
(* coherenceWarning, driftWarning or correctionComplete event does not     *)
(* change the outcome of the operation that emitted it: sync() still tries *)
(* the next source and still resolves, and the clock state stays           *)
(* consistent (new offsets come with a new anchor).                        *)
(***************************************************************************)
C27_ThrowingSubscriberIsolated ==
  [][\A c \in Calls, a \in Answers :
       Answered(c, a) =>
         LET rs == SamplesAfter(c, a)
             more == calls[c].idx < Len(serversToTest(calls[c].cfg))
         IN /\ more => /\ calls'[c].pc = "querying"
                       /\ calls'[c].idx = calls[c].idx + 1
            /\ (~more /\ rs # <<>>) => Resolves(c)
            /\ systemOffset' # systemOffset =>
                 (isSync' /\ lastSyncTime' = clock /\ syncDate' = clock)]_vars

(***************************************************************************)
(* C23: the state changes of a sync are invisible until it completes and   *)
(* then appear all at once: while a sync awaits source responses, now(),   *)
(* offset() and stats() are unaffected by it, and no reader or event       *)
(* subscriber ever observes a state in which the new offsets are set while *)
(* the anchor (lastSyncTime, syncDate) or isSync is still that of the      *)
(* previous sync.                                                          *)
(***************************************************************************)
\* the offsets, the anchor and isSync of the object this
AnchoredOffsets(this) ==
  <<this.systemOffset, this.targetOffset, this.isSync, this.lastSyncTime,
    this.syncDate>>

\* call c is still waiting for its servers after this step of its loop
Awaits(c) ==
  /\ calls'[c].pc = "querying"
  /\ \/ calls[c].pc # "querying"
     \/ calls'[c].idx = calls[c].idx + 1

C23_SyncAppearsAtOnce ==
  [][/\ \A c \in Calls :
          Awaits(c) => /\ now(This, clock)' = now(This, clock)
                       /\ offset(This)' = offset(This)
                       /\ stats(This, clock)' = stats(This, clock)
     /\ \A i \in 1..Len(observed') :
          AnchoredOffsets(observed'[i])
            \in {AnchoredOffsets(This), AnchoredOffsets(This')}]_vars

(***************************************************************************)
(* C31: sync() always settles: each source query ends in success or in a   *)
(* per-source failure no later than its timeout, so sync resolves or       *)
(* rejects after a bounded number of queries even if no source ever        *)
(* answers; a response that arrives after its query timed out is not used  *)
(* as a sample.                                                            *)
(***************************************************************************)
\* the response comes after the timer of the query has fired, or never
Late(c, arrival) == arrival = NULL \/ arrival > calls[c].cfg.timeout

C31_SyncAlwaysSettles ==
  /\ [](\A c \in Calls :
          calls[c].pc = "querying" =>
            /\ calls[c].idx \in 1..Len(serversToTest(calls[c].cfg))
            /\ Len(calls[c].results) < calls[c].idx)
  /\ [][\A c \in Calls, arrival \in Arrivals, answer \in QueryAnswers,
          timerFirst \in BOOLEAN :
          AwaitQuery(c, arrival, answer, timerFirst) =>
            /\ clock' - clock <= calls[c].cfg.timeout
            /\ \/ calls'[c].pc \in {"resolved", "rejected"}
               \/ calls'[c].pc = "querying" /\ calls'[c].idx = calls[c].idx + 1
            /\ Late(c, arrival) =>
                 /\ clock' - clock = calls[c].cfg.timeout
                 /\ emitted'[1] = [type |-> "error", server |-> calls[c].server]
                 /\ calls'[c].pc = "querying" =>
                      calls'[c].results = calls[c].results
                 /\ calls[c].results = <<>> => calls'[c].pc # "resolved"
                 /\ systemOffset' # systemOffset =>
                      \E i \in 1..Len(calls[c].results) :
                        calls[c].results[i].offset = systemOffset']_vars
  /\ \A c \in Calls :
       (calls[c].pc = "querying") ~> (calls[c].pc \in {"resolved", "rejected"})

\* no server ever answered: the sync has rejected after three timeouts
C31_Witness ==
  /\ calls[1].pc = "rejected"
  /\ syncCalls = 1
  /\ clock = StartClock + 3 * config.timeout
  /\ emitted # <<>>
  /\ emitted[1] = [type |-> "error", server |-> config.servers[3]]

(***************************************************************************)
(* C32: the coherenceVariance reported by a successful sync is a number    *)
(* equal to max - min of the offsets of the sources that succeeded in that *)
(* sync, 0 when exactly one source succeeded, and never negative.          *)
(***************************************************************************)
C32_CoherenceVarianceIsSpread ==
  [][\A c \in Calls, a \in Answers :
       (Answered(c, a) /\ Resolves(c)) =>
         LET rs == SamplesAfter(c, a) IN
         /\ LastEvent'.type = "sync"
         /\ LastEvent'.coherenceVariance \in Nat
         /\ LastEvent'.coherenceVariance = Spread(rs)
         /\ Len(rs) = 1 => LastEvent'.coherenceVariance = 0
         /\ \A i, j \in 1..Len(rs) :
              rs[i].offset - rs[j].offset <= LastEvent'.coherenceVariance
         /\ \E i, j \in 1..Len(rs) :
              rs[i].offset - rs[j].offset = LastEvent'.coherenceVariance]_vars

\* a sync has resolved with samples that differ, without a coherence warning
C32_Witness ==
  /\ calls[1].pc = "resolved"
  /\ Len(emitted) = 1
  /\ LastEvent.type = "sync"
  /\ LastEvent.coherenceVariance > 0

(***************************************************************************)
(* C33: each correction tick checks in this order: if |target - applied|   *)
(* < 0.5 ms it snaps applied to target and reports converged; else if more *)
(* than 30 s have elapsed in the run it snaps and reports timeout; else it *)
(* adds (target - applied) * correctionRate to the applied offset and      *)
(* schedules the next tick.  A tick that is both within the threshold and  *)
(* past the time limit is reported as converged, not as timeout.           *)
(***************************************************************************)
\* the tick ends the run and reports it with that flag
Snaps(flag) ==
  /\ ~correctionInProgress'
  /\ currentOffset' = targetOffset
  /\ emitted' = <<[type |-> "correctionComplete", finalOffset |-> targetOffset,
                   flag |-> flag]>>

C33_TickChecksInOrder ==
  [][\A tm \in BagToSet(timers) :
       (Tick(tm) /\ correctionInProgress) =>
         LET diff == targetOffset - currentOffset IN
         IF 2 * Abs(diff) < Scale
         THEN Snaps("converged")
         ELSE IF clock - runStart > CorrectionTimeout
         THEN Snaps("timeout")
         ELSE /\ correctionInProgress'
              /\ currentOffset' = currentOffset + Mul(diff, tm.rate)
              /\ emitted' = <<>>
              /\ \E next \in BagToSet(timers') :
                   next.due = clock + nextInterval(diff)]_vars

(***************************************************************************)
(* C34: within its [50 ms, 200 ms] clamp, the delay before the next        *)
(* correction tick gets shorter, never longer, as the remaining error      *)
(* |target - applied| gets larger.  A tick that steps leaves a smaller     *)
(* error than it found, so the delay it arms is at most the delay that the *)
(* error it leaves calls for.                                              *)
(***************************************************************************)
\* the timer armed by the tick that fired tm
ArmedBy(tm) ==
  {next \in BagToSet(timers') :
     CopiesIn(next, timers') > CopiesIn(next, timers (-) SetToBag({tm}))}

C34_LargerErrorShorterDelay ==
  [][\A tm \in BagToSet(timers) :
       (Tick(tm) /\ correctionInProgress /\ correctionInProgress') =>
         \A next \in ArmedBy(tm) :
           /\ next.due - clock \in 50..200
           /\ Abs(targetOffset' - currentOffset') < Abs(targetOffset - currentOffset)
                => next.due - clock <= nextInterval(targetOffset' - currentOffset')]_vars

(***************************************************************************)
(* C35: at most one correction tick is pending at any time: a smooth sync  *)
(* that arrives while a correction is already Converging, or that starts a *)
(* new correction before the timer of a finished one has fired, does not   *)
(* add a second tick chain.                                                *)
(***************************************************************************)
C35_OneTickPending == BagCardinality(timers) <= 1

(***************************************************************************)
(* C36: a sync decides between instant and smooth correction with the      *)
(* configuration merged at the moment sync() was called: a                 *)
(* setSmoothCorrection() call made while that sync is awaiting sources     *)
(* does not affect that sync's decision, thresholds or rate.               *)
(***************************************************************************)
\* the timers armed by this step
Armed == {next \in BagToSet(timers') : CopiesIn(next, timers') > CopiesIn(next, timers)}

C36_SyncUsesConfigOfItsCall ==
  [][/\ \A c \in Calls, enabled \in BOOLEAN, options \in JumpOptions :
          SetSmoothCorrection(enabled, options) => calls'[c] = calls[c]
     /\ \A c \in Calls, a \in RunOffsets :
          (SyncQueryOk(c, a) /\ Resolves(c)) =>
            LET cfg == calls[c].cfg
                diff == Ms(a) - currentOffset
                instant == \/ ~isSync
                           \/ ~cfg.smoothCorrection
                           \/ Abs(diff) <= Ms(cfg.maxCorrectionJump)
                           \/ Abs(diff) >= Ms(cfg.maxOffsetThreshold)
            IN /\ LastEvent'.gradualCorrection = correctionInProgress'
               /\ instant => (~correctionInProgress' /\ currentOffset' = Ms(a))
               /\ (~instant /\ 2 * Abs(diff) >= Scale) =>
                    /\ correctionInProgress'
                    /\ currentOffset' = currentOffset + Mul(diff, cfg.correctionRate)
                    /\ Armed # {}
                    /\ \A next \in Armed : next.rate = cfg.correctionRate]_vars

\* a sync has started a smooth correction although the configuration of the
\* instance, changed while the sync was waiting, makes every correction instant
C36_Witness ==
  /\ calls[1].pc = "resolved"
  /\ emitted # <<>>
  /\ LastEvent.type = "sync"
  /\ LastEvent.gradualCorrection
  /\ correctionInProgress
  /\ config.maxCorrectionJump >= config.maxOffsetThreshold

(***************************************************************************)
(* C37: at most one auto-sync timer is armed at any time: startAutoSync()  *)
(* called while auto-sync is running replaces the existing timer instead   *)
(* of adding one, and a sync with the autoSync option arms a timer only if *)
(* none is armed.                                                          *)
(***************************************************************************)
C37_OneAutoSyncTimer ==
  /\ [](/\ Cardinality(intervals) <= 1
        /\ \A iv \in intervals : iv.id = autoSyncTimer
        /\ autoSyncTimer # NULL => intervals # {})
  /\ [][/\ \A interval \in {2 * AutoSyncInterval} :
             StartAutoSync(interval) =>
               \E iv \in intervals' :
                 /\ intervals' = {iv}
                 /\ iv.interval = interval
                 /\ iv.due = clock + interval
        /\ \A c \in Calls :
             (Resolves(c) /\ intervals # {}) => intervals' = intervals
        /\ \A c \in Calls :
             (Resolves(c) /\ intervals = {} /\ calls[c].cfg.autoSync) =>
               \E iv \in intervals' :
                 /\ intervals' = {iv}
                 /\ iv.interval = calls[c].cfg.autoSyncInterval
                 /\ iv.due = clock + iv.interval]_vars

\* a sync started by a tick of the timer that a call with the autoSync option
\* armed is in flight, and startAutoSync() has replaced that timer since
C37_Witness ==
  /\ \E c \in Calls :
       calls[c].pc = "querying" /\ calls[c].auto /\ ~calls[c].stopped
  /\ clock < StartClock + 2 * AutoSyncInterval
  /\ \E iv \in intervals :
       /\ intervals = {iv}
       /\ iv.interval = 2 * AutoSyncInterval
       /\ iv.id = autoSyncTimer

(***************************************************************************)
(* C38: after stopAutoSync() returns, no auto-sync timer is armed, and a   *)
(* sync that was already in flight does not re-arm auto-sync when it       *)
(* completes: no scheduled sync starts until startAutoSync() is called     *)
(* again.  The sync in flight is one that a tick of the timer started.     *)
(***************************************************************************)
C38_StoppedStaysStopped ==
  [][/\ StopAutoSync => (autoSyncTimer' = NULL /\ intervals' = {})
     /\ \A c \in Calls :
          (/\ calls[c].pc = "querying"
           /\ calls[c].auto
           /\ calls[c].stopped
           /\ calls'[c].pc # "querying"
           /\ autoSyncTimer = NULL) =>
            (autoSyncTimer' = NULL /\ intervals' = {})]_vars

\* the servers a sync with configuration cfg tests: the first three of the
\* configured list under coherence validation, the whole list without it
TestSet(cfg) ==
  IF cfg.coherenceValidation
  THEN [k \in 1..Min(3, Len(cfg.servers)) |-> cfg.servers[k]]
  ELSE cfg.servers

(***************************************************************************)
(* C39: sync queries every server of its test set exactly once, in the     *)
(* configured order, and does not stop at the first success, also when     *)
(* coherenceValidation is disabled; the spread check and the median        *)
(* selection are applied to all the successful samples in both modes.      *)
(***************************************************************************)
C39_EveryServerQueriedOnce ==
  /\ [](\A c \in Calls :
          calls[c].pc = "querying" =>
            /\ calls[c].idx \in 1..Len(TestSet(calls[c].cfg))
            /\ calls[c].server = TestSet(calls[c].cfg)[calls[c].idx]
            /\ Len(calls[c].results) < calls[c].idx)
  /\ [][\A c \in Calls :
          /\ (calls[c].pc # "querying" /\ calls'[c].pc = "querying") =>
               /\ calls'[c].idx = 1
               /\ calls'[c].results = <<>>
          /\ \A a \in Answers :
               Answered(c, a) =>
                 LET rs == SamplesAfter(c, a) IN
                 IF calls[c].idx < Len(TestSet(calls[c].cfg))
                 THEN /\ calls'[c].pc = "querying"
                      /\ calls'[c].cfg = calls[c].cfg
                      /\ calls'[c].idx = calls[c].idx + 1
                      /\ calls'[c].results = rs
                 ELSE /\ LastAnswer(c)
                      /\ Resolves(c) <=> rs # <<>>
                      /\ Resolves(c) =>
                           /\ LastEvent'.type = "sync"
                           /\ LastEvent'.coherenceVariance = Spread(rs)
                           /\ (\E i \in 1..Len(emitted') :
                                 emitted'[i].type = "coherenceWarning") <=>
                                (Len(rs) >= 2 /\ Spread(rs) > Ms(100))
                           /\ (Len(rs) >= 2 /\ Spread(rs) > Ms(100)) =>
                                /\ \E i \in 1..Len(emitted') :
                                     /\ emitted'[i].type = "coherenceWarning"
                                     /\ emitted'[i].variance = Spread(rs)
                                     /\ emitted'[i].servers = rs
                                /\ IsMedian(LastEvent'.offset, rs)
                           /\ ~(Len(rs) >= 2 /\ Spread(rs) > Ms(100)) =>
                                LastEvent'.offset = rs[1].offset]_vars

\* coherence validation disabled, four servers: all four were queried although
\* the first one answered, and the median of the four samples was selected
C39_Witness ==
  /\ calls[1].pc = "resolved"
  /\ Len(config.servers) = 4
  /\ Len(emitted) = 2
  /\ emitted[1].type = "coherenceWarning"
  /\ Len(emitted[1].servers) = 4
  /\ emitted[1].variance = Ms(2500)
  /\ emitted[2].type = "sync"
  /\ emitted[2].offset = Ms(2500)

(***************************************************************************)
(* C40: the offset a sync applies is always the offset measured from one   *)
(* of the sources that succeeded in that sync, never an average or an      *)
(* invented value, and the server named in the result is a source that     *)
(* measured exactly that offset; with exactly two samples that disagree by *)
(* more than 100 ms it is the larger of the two offsets.                   *)
(***************************************************************************)
C40_AppliedOffsetIsASample ==
  [][\A c \in Calls, a \in Answers :
       (Answered(c, a) /\ Resolves(c)) =>
         LET rs == SamplesAfter(c, a) IN
         /\ targetOffset' = LastEvent'.offset
         /\ systemOffset' = LastEvent'.offset
         /\ \E i \in 1..Len(rs) :
              /\ rs[i].offset = LastEvent'.offset
              /\ rs[i].server = LastEvent'.server
         /\ (Len(rs) = 2 /\ Abs(rs[1].offset - rs[2].offset) > Ms(100)) =>
              /\ LastEvent'.offset >= rs[1].offset
              /\ LastEvent'.offset >= rs[2].offset]_vars

\* two servers answered, 40 ms and then 9000 ms: the sync applied 9000 ms and
\* named the server that measured it
C40_Witness ==
  /\ calls[1].pc = "resolved"
  /\ Len(emitted) >= 2
  /\ emitted[Len(emitted) - 1].type = "coherenceWarning"
  /\ emitted[Len(emitted) - 1].servers =
       <<[server |-> "pool.ntp.org", offset |-> Ms(40)],
         [server |-> "time.cloudflare.com", offset |-> Ms(9000)]>>
  /\ LastEvent.type = "sync"
  /\ LastEvent.offset = Ms(9000)
  /\ LastEvent.server = "time.cloudflare.com"
  /\ targetOffset = Ms(9000)

====
